---- MODULE Spec2Model ----
(***************************************************************************)
(* A model of the movie-data pipeline: the startup sequence of             *)
(* moviedata_final.py (download, extract, load, clean), its query methods, *)
(* and the guarded extraction of moviedata.py.                             *)
(*                                                                         *)
(* Text is modelled as a sequence of one-character strings, so that        *)
(* lower(), strip(), split(), join(), os.path.commonprefix and             *)
(* ast.literal_eval are computed character by character.                   *)
(***************************************************************************)
EXTENDS Integers, Sequences, FiniteSets, TLC

VARIABLES
    served,        \* the archive the data_url serves: a sequence of members
    tar_filter,    \* the extraction filter tarfile.extractall defaults to
    archive_file,  \* downloads/MovieSummaries.tar.gz: [exists, chunks]
    disk,          \* the absolute paths that exist below the root
    pc,            \* the stage of MovieData.__init__ about to run
    err,           \* the exception the last stage raised, "" if none
    wrote,         \* the number of members the last extraction wrote
    movie_df,      \* MovieData.movie_df: [loaded, rows]
    character_df,  \* MovieData.character_df: [loaded, rows]
    read,          \* the rows read_csv returned for the two data files
    cleanings,     \* how many times _clean_data has run on the tables
    result         \* what the last query call returned or raised

vars == <<served, tar_filter, archive_file, disk, pc, err, wrote,
          movie_df, character_df, read, cleanings, result>>

(***************************************************************************)
(* Bounds                                                                  *)
(***************************************************************************)
MaxMembers == 3     \* members in a served archive
MaxRows == 2        \* rows of a loaded table
MaxGenderLen == 3   \* characters of a raw gender code
MaxN == 2           \* largest |N| passed to movie_type
MaxCleanings == 2   \* applications of _clean_data to one pair of tables

(***************************************************************************)
(* Text helpers                                                            *)
(***************************************************************************)
Min(a, b) == IF a < b THEN a ELSE b

RECURSIVE JoinWith(_, _)
\* sep.join(parts) for a sequence of texts
JoinWith(sep, parts) ==
    IF parts = <<>> THEN <<>>
    ELSE IF Len(parts) = 1 THEN parts[1]
    ELSE parts[1] \o sep \o JoinWith(sep, Tail(parts))

IsPrefix(s, t) == Len(s) <= Len(t) /\ SubSeq(t, 1, Len(s)) = s

(***************************************************************************)
(* Paths: a relative or absolute path is a sequence of components, each a  *)
(* text.  The directory names of the source are spelled out in full        *)
(* because os.path.commonprefix compares them character by character.      *)
(***************************************************************************)
downloads == <<"d","o","w","n","l","o","a","d","s">>
downloads_evil == downloads \o <<"_","e","v","i","l">>
MovieSummaries == <<"M","o","v","i","e","S","u","m","m","a","r","i","e","s">>
movie_metadata_tsv ==
    <<"m","o","v","i","e",".","m","e","t","a","d","a","t","a",".","t","s","v">>
character_metadata_tsv ==
    <<"c","h","a","r","a","c","t","e","r",".","m","e","t","a","d","a","t","a",".","t","s","v">>
evil == <<"e","v","i","l">>
DotDot == <<".", ".">>
Dot == <<".">>

\* os.getcwd(): the directory the program is started in
Cwd == << <<"s","r","v">>, <<"a","p","p">> >>

\* MovieData.download_dir, MovieData.extracted_dir and the data files
download_dir == <<downloads>>
extracted_dir == download_dir \o <<MovieSummaries>>
movie_file == extracted_dir \o <<movie_metadata_tsv>>
character_file == extracted_dir \o <<character_metadata_tsv>>

RECURSIVE normpath(_, _)
\* os.path.normpath on components: acc is the normalised part so far
normpath(acc, rest) ==
    IF rest = <<>> THEN acc
    ELSE IF Head(rest) = Dot THEN normpath(acc, Tail(rest))
    ELSE IF Head(rest) = DotDot
        THEN normpath(IF acc = <<>> THEN <<>> ELSE SubSeq(acc, 1, Len(acc) - 1),
                      Tail(rest))
    ELSE normpath(Append(acc, Head(rest)), Tail(rest))

\* os.path.abspath(p) for a relative path p: normpath(join(getcwd(), p))
abspath(p) == normpath(<<>>, Cwd \o p)

RECURSIVE PathText(_)
\* the text of an absolute path: "/" before every component
PathText(p) ==
    IF p = <<>> THEN <<>> ELSE <<"/">> \o Head(p) \o PathText(Tail(p))

RECURSIVE commonprefix2(_, _)
\* os.path.commonprefix([s, t]): the longest common leading text
commonprefix2(s, t) ==
    IF s = <<>> \/ t = <<>> \/ Head(s) # Head(t) THEN <<>>
    ELSE <<Head(s)>> \o commonprefix2(Tail(s), Tail(t))

\* every leading part of an absolute path, the path itself included
Ancestors(p) == { SubSeq(p, 1, k) : k \in 0..Len(p) }

(***************************************************************************)
(* Archives                                                                *)
(***************************************************************************)
\* the member names an archive may hold (TarInfo.name), relative paths
MemberNames == {
    <<MovieSummaries, movie_metadata_tsv>>,
    <<MovieSummaries, character_metadata_tsv>>,
    <<DotDot, DotDot, evil>>,
    <<DotDot, downloads_evil, <<"x">> >> }

RECURSIVE SeqsUpTo(_, _)
\* the sequences over S of length 0..n
SeqsUpTo(S, n) ==
    IF n = 0 THEN { <<>> }
    ELSE LET shorter == SeqsUpTo(S, n - 1)
         IN shorter \cup { Append(s, x) : s \in { t \in shorter : Len(t) = n - 1 }, x \in S }

Archives == { a \in SeqsUpTo(MemberNames, MaxMembers) : a # <<>> }

\* where extractall(path=download_dir) puts a member
Target(name) == abspath(download_dir \o name)

\* the member resolves inside the download directory
Inside(name) == IsPrefix(abspath(download_dir), Target(name))

\* the paths present when the program is first started: the working
\* directory and the directories above it
BaseDisk == Ancestors(abspath(<<>>))

\* the paths extraction of the first k members of archive a creates
Written(a, k) == UNION { Ancestors(Target(a[i])) : i \in 1..k }

(***************************************************************************)
(* Tables: a loaded table is a sequence of rows; None is "not loaded".     *)
(***************************************************************************)
NotLoaded == [loaded |-> FALSE, rows |-> <<>>]
Table(rows) == [loaded |-> TRUE, rows |-> rows]
NoResult ==
    [call |-> "", args |-> <<>>, kind |-> "none", error |-> "",
     columns |-> <<>>, rows |-> <<>>]
NothingRead == [movie |-> <<>>, character |-> <<>>]

(***************************************************************************)
(* Cells.  A text cell is Str(s) with s its characters; NaN is the missing *)
(* value read_csv produces for an empty field; None is Python's None.      *)
(***************************************************************************)
Str(s) == [kind |-> "str", s |-> s]
NaN == [kind |-> "nan", s |-> <<>>]
None == [kind |-> "none", s |-> <<>>]

\* pd.isna
isna(c) == c.kind \in {"nan", "none"}

\* str.lower on one character
lower_char(c) ==
    CASE c = "M" -> "m"
      [] c = "F" -> "f"
      [] c = "A" -> "a"
      [] c = "L" -> "l"
      [] c = "E" -> "e"
      [] c = "X" -> "x"
      [] c = "D" -> "d"
      [] c = "C" -> "c"
      [] c = "B" -> "b"
      [] OTHER -> c

\* str.lower
lower(s) == [i \in 1..Len(s) |-> lower_char(s[i])]

RECURSIVE lstrip(_)
lstrip(s) == IF s # <<>> /\ Head(s) = " " THEN lstrip(Tail(s)) ELSE s

RECURSIVE rstrip(_)
rstrip(s) ==
    IF s # <<>> /\ s[Len(s)] = " " THEN rstrip(SubSeq(s, 1, Len(s) - 1)) ELSE s

\* str.strip
strip(s) == rstrip(lstrip(s))

(***************************************************************************)
(* ast.literal_eval on the text of a cell, as far as _clean_data uses it:  *)
(* the text is accepted when it is a dict display of double-quoted keys    *)
(* and values, and the result is the dict's values in insertion order.     *)
(***************************************************************************)
Quote == "\""

\* d[key] = value on a dict kept as a sequence of <<key, value>> pairs
dict_put(d, key, value) ==
    IF \E i \in 1..Len(d) : d[i][1] = key
    THEN [i \in 1..Len(d) |-> IF d[i][1] = key THEN <<key, value>> ELSE d[i]]
    ELSE Append(d, <<key, value>>)

ParseFailed == [ok |-> FALSE, values |-> <<>>]

RECURSIVE scan_dict(_, _, _, _, _, _)
\* one pass over the text x from position i; st is the parser's state, key
\* and cur the string literal being read, d the dict built so far
scan_dict(x, i, st, key, cur, d) ==
    IF i > Len(x)
    THEN IF st = "end" THEN [ok |-> TRUE, values |-> [j \in 1..Len(d) |-> d[j][2]]]
         ELSE ParseFailed
    ELSE LET c == x[i] IN
      CASE st = "start" ->
             IF c = " " THEN scan_dict(x, i + 1, "start", key, cur, d)
             ELSE IF c = "{" THEN scan_dict(x, i + 1, "open", key, cur, d)
             ELSE ParseFailed
        [] st \in {"open", "after_comma"} ->
             IF c = " " THEN scan_dict(x, i + 1, st, key, cur, d)
             ELSE IF c = "}" THEN scan_dict(x, i + 1, "end", key, cur, d)
             ELSE IF c = Quote THEN scan_dict(x, i + 1, "key", <<>>, cur, d)
             ELSE ParseFailed
        [] st = "key" ->
             IF c = Quote THEN scan_dict(x, i + 1, "colon", key, cur, d)
             ELSE scan_dict(x, i + 1, "key", Append(key, c), cur, d)
        [] st = "colon" ->
             IF c = " " THEN scan_dict(x, i + 1, "colon", key, cur, d)
             ELSE IF c = ":" THEN scan_dict(x, i + 1, "vstart", key, cur, d)
             ELSE ParseFailed
        [] st = "vstart" ->
             IF c = " " THEN scan_dict(x, i + 1, "vstart", key, cur, d)
             ELSE IF c = Quote THEN scan_dict(x, i + 1, "val", key, <<>>, d)
             ELSE ParseFailed
        [] st = "val" ->
             IF c = Quote THEN scan_dict(x, i + 1, "next", key, cur, dict_put(d, key, cur))
             ELSE scan_dict(x, i + 1, "val", key, Append(cur, c), d)
        [] st = "next" ->
             IF c = " " THEN scan_dict(x, i + 1, "next", key, cur, d)
             ELSE IF c = "," THEN scan_dict(x, i + 1, "after_comma", key, cur, d)
             ELSE IF c = "}" THEN scan_dict(x, i + 1, "end", key, cur, d)
             ELSE ParseFailed
        [] OTHER ->
             IF c = " " THEN scan_dict(x, i + 1, "end", key, cur, d)
             ELSE ParseFailed

\* ast.literal_eval(x).values(): ok is FALSE when either call raises
literal_eval_values(x) == scan_dict(x, 1, "start", <<>>, <<>>, <<>>)

\* the separator _clean_data joins with and movie_type splits on
Sep == <<",", " ">>

\* safe_eval without its except clause: a parse failure leaves the call
safe_eval_unguarded(x) ==
    IF x.kind = "str"
    THEN LET r == literal_eval_values(x.s)
         IN IF r.ok THEN Str(JoinWith(Sep, r.values))
            ELSE [kind |-> "raised", s |-> <<>>]
    ELSE None

\* safe_eval inside clean_column_values
safe_eval(x) ==
    IF x.kind = "str"
    THEN LET r == literal_eval_values(x.s)
         IN IF r.ok THEN Str(JoinWith(Sep, r.values)) ELSE Str(<<>>)
    ELSE None

\* clean_column_values(df, column): df[column] = df[column].apply(safe_eval)
clean_column_values(rows, column) ==
    [i \in 1..Len(rows) |-> [rows[i] EXCEPT ![column] = safe_eval(@)]]

\* the outcome of a call that raises instead of returning a cell
Raises == [kind |-> "raised", s |-> <<>>]

\* Series.apply(safe_eval) raises when one of its calls of safe_eval does
apply_raises(rows, column) ==
    \E i \in 1..Len(rows) : safe_eval(rows[i][column]).kind = "raised"

\* the columns _clean_data passes to clean_column_values, in order
CleanedColumns == <<"Movie_genres", "Movie_countries", "Movie_languages">>

RECURSIVE clean_columns(_, _)
\* lines 130-132 of _clean_data: the columns are cleaned one after the
\* other; an exception leaving apply ends the run with the columns before
\* it assigned and the failing one as it was
clean_columns(rows, columns) ==
    IF columns = <<>> THEN [rows |-> rows, raised |-> FALSE]
    ELSE IF apply_raises(rows, Head(columns)) THEN [rows |-> rows, raised |-> TRUE]
    ELSE clean_columns(clean_column_values(rows, Head(columns)), Tail(columns))

(***************************************************************************)
(* Heights are kept in hundredths (1.78 is 178, 178 is 17800), so that the *)
(* metre values of the data set are integers of the model.                 *)
(***************************************************************************)
Num(v) == [kind |-> "num", v |-> v]
NumNaN == [kind |-> "nan", v |-> 0]
\* a field that is not a number, e.g. "tall"
NumText == [kind |-> "text", v |-> 0]

\* pd.to_numeric(errors='coerce') on one cell
to_numeric(h) == IF h.kind = "num" THEN h ELSE NumNaN

\* the threshold and the factor of line 136, in hundredths
HeightThreshold == 10 * 100
\* a variant that also rescales a height equal to the threshold
rescale_inclusive(h) ==
    IF h.kind = "num" /\ h.v <= HeightThreshold THEN Num(h.v * 100) ELSE h

\* df.loc[df.Actor_height < 10, "Actor_height"] *= 100 on one cell
rescale(h) ==
    IF h.kind = "num" /\ h.v < HeightThreshold THEN Num(h.v * 100) ELSE h

(***************************************************************************)
(* Gender normalisation                                                    *)
(***************************************************************************)
male == <<"m","a","l","e">>
female == <<"f","e","m","a","l","e">>
unknown == <<"u","n","k","n","o","w","n">>

\* Series.map({"m": "male", "f": "female"}) on one cell: NaN when the key
\* is not in the mapping
gender_map(c) ==
    IF c.kind = "str" /\ c.s = <<"m">> THEN Str(male)
    ELSE IF c.kind = "str" /\ c.s = <<"f">> THEN Str(female)
    ELSE NaN

\* Series.fillna(value) on one cell
fillna(c, value) == IF isna(c) THEN value ELSE c

\* a variant that lowers the case but keeps the surrounding whitespace
lower_only(c) == IF c.kind = "str" THEN Str(lower(c.s)) ELSE c

\* .str.lower().str.strip() on one cell: missing values stay missing
lower_strip(c) == IF c.kind = "str" THEN Str(strip(lower(c.s))) ELSE c

\* the expression of lines 140-146 on one cell g of Actor_Gender
normalize_gender(g) ==
    fillna(gender_map(lower_strip(fillna(g, Str(unknown)))), g)

\* df.dropna(subset=['Actor_height']) keeps the rows with a height
has_height(r) == r.Actor_height.kind = "num"

\* lines 130-132 of _clean_data on the rows of movie_df
clean_movie_rows(rows) ==
    clean_column_values(
        clean_column_values(
            clean_column_values(rows, "Movie_genres"),
            "Movie_countries"),
        "Movie_languages")

\* lines 135-147 of _clean_data on the rows of character_df
clean_character_rows(rows) ==
    LET converted == [i \in 1..Len(rows) |->
            [rows[i] EXCEPT !.Actor_height = rescale(to_numeric(@)),
                            !.Actor_Gender = normalize_gender(@)]]
    IN SelectSeq(converted, has_height)

(***************************************************************************)
(* Dates: a date field is a parsable date, missing, or text that is no date*)
(***************************************************************************)
Date(y, m) == [kind |-> "date", year |-> y, month |-> m]
NaT == [kind |-> "nan", year |-> 0, month |-> 0]
DateText == [kind |-> "text", year |-> 0, month |-> 0]

\* pd.to_datetime(errors='coerce') on one cell
to_datetime(d) == IF d.kind = "date" THEN d ELSE NaT

(***************************************************************************)
(* The contents the two data files may have.  read_csv yields a table of   *)
(* at least one row (an empty file raises EmptyDataError).                 *)
(***************************************************************************)
Drama == <<"D","r","a","m","a">>
Comedy == <<"C","o","m","e","d","y">>
\* a display name that contains the separator
BlackAndWhite == <<"B",",", " ","W">>
GenreNames == {Drama, Comedy, BlackAndWhite}

\* the keys of a serialized map, by position
MapKeys == <<"a", "b", "c", "d">>

\* the text {"a": "v1", "b": "v2"} of a code-to-name map with these values
dict_text(values) ==
    <<"{">> \o
    JoinWith(Sep, [i \in 1..Len(values) |->
        <<Quote, MapKeys[i], Quote, ":", " ", Quote>> \o values[i] \o <<Quote>>]) \o
    <<"}">>

\* the raw cells of Movie_genres, Movie_countries and Movie_languages
MalformedCells ==
    { Str(<<"{">>),                      \* malformed text
      Str(Drama),                        \* a bare name
      Str(<<Quote>> \o Drama \o <<Quote>>) }  \* a literal that is no mapping

\* the cells that hold a well-formed map of up to two names
MapTexts == { Str(dict_text(vs)) : vs \in SeqsUpTo(GenreNames, 2) }

RawMapCells ==
    MapTexts \cup MalformedCells \cup
    { NaN,                               \* an empty field
      Str(<<"{", Quote, "a", Quote, ":", " ", Quote, "x", Quote, ",", " ",
            Quote, "a", Quote, ":", " ", Quote, "y", Quote, "}">>) }  \* a repeated key

SmallMapCells == { Str(dict_text(<<Drama>>)), Str(dict_text(<<Comedy, Drama>>)) }

RawDates == { Date(2000, 1), Date(2001, 2), NaT, DateText }

MovieRow(id, date, languages, countries, genres) ==
    [Wikipedia_movie_ID |-> id, Movie_release_Date |-> date,
     Movie_languages |-> languages, Movie_countries |-> countries,
     Movie_genres |-> genres]

DefaultMap == Str(dict_text(<<Drama>>))

SmallMovieRows ==
    { MovieRow(1, d, DefaultMap, DefaultMap, g) :
        d \in {Date(2000, 1), Date(2001, 2), NaT}, g \in SmallMapCells }

RichMovieRows ==
    { MovieRow(1, Date(2000, 1), DefaultMap, DefaultMap, g) : g \in RawMapCells } \cup
    { MovieRow(1, Date(2000, 1), DefaultMap, c, DefaultMap) : c \in RawMapCells } \cup
    { MovieRow(1, Date(2000, 1), l, DefaultMap, DefaultMap) : l \in RawMapCells } \cup
    { MovieRow(1, d, DefaultMap, DefaultMap, DefaultMap) : d \in RawDates }

\* the tables of 1..n rows over a set of rows
TablesOver(rows, n) == { t \in SeqsUpTo(rows, n) : t # <<>> }

\* a row with a cell that does not parse next to a row that does
MixedMovieTables ==
    LET good == MovieRow(1, Date(2001, 2), DefaultMap, DefaultMap,
                         Str(dict_text(<<Comedy, Drama>>)))
        bad(b) == MovieRow(1, Date(2000, 1), DefaultMap, DefaultMap, b)
    IN { <<bad(b), good>> : b \in MalformedCells } \cup
       { <<good, bad(b)>> : b \in MalformedCells }

RawMovieTables ==
    TablesOver(SmallMovieRows, MaxRows) \cup { <<r>> : r \in RichMovieRows } \cup
    MixedMovieTables

GenderChars == {"m", "M", "f", "F", " "}

\* the raw cells of Actor_Gender
RawGenders ==
    { Str(g) : g \in SeqsUpTo(GenderChars, MaxGenderLen) \ { <<>> } } \cup
    { NaN, Str(<<"x">>), Str(<<" ", "x">>), Str(male), Str(female),
      Str(<<"M","a","l","e">>), Str(unknown) }

SmallGenders == { Str(<<"M">>), Str(<<"x">>) }

\* the raw cells of Actor_height, in hundredths: 0.05, 1.78, 10, 178, 300
RawHeights ==
    { Num(5), Num(178), Num(1000), Num(17800), Num(30000), NumNaN, NumText }

SmallHeights == { Num(17800), NumNaN }

CharacterRow(id, dob, gender, height) ==
    [Wikipedia_movie_ID |-> id, Actor_date_of_birth |-> dob,
     Actor_Gender |-> gender, Actor_height |-> height]

SmallCharacterRows ==
    { CharacterRow(id, IF id = 1 THEN Date(1970, 1) ELSE NaT, g, h) :
        id \in 1..2, g \in SmallGenders, h \in SmallHeights }

RichCharacterRows ==
    { CharacterRow(1, Date(1970, 1), g, Num(17800)) : g \in RawGenders } \cup
    { CharacterRow(1, Date(1970, 1), Str(<<"M">>), h) : h \in RawHeights } \cup
    { CharacterRow(1, d, Str(<<"M">>), Num(17800)) :
        d \in {Date(1970, 1), Date(1980, 2), NaT, DateText} }

\* a height in metres next to a height in centimetres
MixedCharacterTables ==
    { << CharacterRow(1, Date(1970, 1), Str(<<"M">>), Num(178)),
         CharacterRow(2, Date(1980, 2), Str(<<"F">>), Num(17800)) >> }

RawCharacterTables ==
    TablesOver(SmallCharacterRows, MaxRows) \cup { <<r>> : r \in RichCharacterRows } \cup
    MixedCharacterTables

\* the contents of the two files of the archive the startup model loads
MovieFiles ==
    { << MovieRow(1, Date(2000, 1), DefaultMap, DefaultMap, Str(dict_text(<<Drama, Comedy>>))) >>,
      << MovieRow(1, NaT, NaN, DefaultMap, Str(<<"{">>)),
         MovieRow(2, Date(2001, 2), DefaultMap, DefaultMap, DefaultMap) >> }

CharacterFiles ==
    { << CharacterRow(1, Date(1970, 1), Str(<<" ", "M", " ">>), Num(178)) >>,
      << CharacterRow(1, NaT, NaN, Num(17800)),
         CharacterRow(2, Date(1980, 2), Str(<<"x">>), NumNaN) >> }

(***************************************************************************)
(* Startup of moviedata_final.py                                           *)
(***************************************************************************)
\* os.path.exists on a path relative to the working directory
exists(p) == abspath(p) \in disk

\* the archive file holds every chunk the server sends
Complete == archive_file.exists /\ archive_file.chunks = Len(served)

\* the index of the first member of a that resolves outside the download
\* directory, Len(a) + 1 if there is none
FirstOutside(a) ==
    IF \E i \in 1..Len(a) : ~Inside(a[i])
    THEN CHOOSE i \in 1..Len(a) : ~Inside(a[i]) /\ \A j \in 1..(i - 1) : Inside(a[j])
    ELSE Len(a) + 1

\* TarFile.extractall(path=download_dir) on the archive file: members are
\* read and written one after the other.  The read of member k+1 fails when
\* the file is truncated after k members, the filter rejects a member outside
\* the destination (filter "data" only), and io is the number of members
\* the disk accepts before a write fails (Len(served) if none fails).
\* The result is the number of members written and the exception raised.
extractall(io) ==
    LET n == Len(served)
        avail == archive_file.chunks
        passed == IF tar_filter = "data" THEN FirstOutside(served) - 1 ELSE n
        k == Min(Min(avail, passed), io)
    IN [wrote |-> k,
        err |-> IF k = n THEN ""
                ELSE IF k = avail THEN "ReadError"
                ELSE IF k = passed THEN "FilterError"
                ELSE "OSError"]

\* MovieData.__init__ up to the first stage: mkdir(exist_ok=True); a new
\* process starts with no tables
Startup ==
    /\ pc \in {"start", "failed", "ready"}
    /\ pc' = "download"
    /\ disk' = disk \cup Ancestors(abspath(download_dir))
    /\ err' = ""
    /\ wrote' = 0
    /\ movie_df' = NotLoaded
    /\ character_df' = NotLoaded
    /\ result' = NoResult
    /\ read' = NothingRead
    /\ cleanings' = 0
    /\ UNCHANGED <<served, tar_filter, archive_file>>

\* MovieData._download_data.  sent is the number of chunks written before
\* the transfer fails: -1 when requests.get or raise_for_status raises (the
\* file is never opened), Len(served) when nothing fails.
download_data ==
    /\ pc = "download"
    /\ IF archive_file.exists
       THEN /\ pc' = "extract"
            /\ UNCHANGED <<archive_file, err>>
       ELSE \E sent \in -1..Len(served) :
            /\ archive_file' = IF sent = -1 THEN archive_file
                               ELSE [exists |-> TRUE, chunks |-> sent]
            /\ err' = IF sent = -1 THEN "RequestException"
                      ELSE IF sent < Len(served) THEN "ChunkedEncodingError"
                      ELSE ""
            /\ pc' = IF sent = Len(served) THEN "extract" ELSE "failed"
    /\ UNCHANGED <<served, read, tar_filter, disk, wrote, movie_df, character_df, cleanings, result>>

\* MovieData._extract_data of moviedata_final.py
extract_data ==
    /\ pc = "extract"
    /\ IF exists(extracted_dir)
       THEN /\ pc' = "load_movie"
            /\ UNCHANGED <<disk, err, wrote>>
       ELSE \E io \in 0..Len(served) :
            LET r == extractall(io)
            IN /\ disk' = disk \cup Written(served, r.wrote)
               /\ wrote' = r.wrote
               /\ err' = r.err
               /\ pc' = IF r.err = "" THEN "load_movie" ELSE "failed"
    /\ UNCHANGED <<served, read, tar_filter, archive_file, movie_df, character_df, cleanings, result>>

\* MovieData._load_movie_data
load_movie_data ==
    /\ pc = "load_movie"
    /\ IF exists(movie_file)
       THEN \E rows \in MovieFiles :
            /\ movie_df' = Table(rows)
            /\ pc' = "load_character"
            /\ err' = ""
            /\ read' = [read EXCEPT !.movie = rows]
       ELSE /\ err' = "FileNotFoundError"
            /\ pc' = "failed"
            /\ UNCHANGED <<movie_df, read>>
    /\ UNCHANGED <<served, tar_filter, archive_file, disk, wrote, character_df,
                   cleanings, result>>

\* a variant of the last load stage after which __init__ returns at once
load_character_data_unclean ==
    /\ pc = "load_character"
    /\ IF exists(character_file)
       THEN \E rows \in CharacterFiles :
            /\ character_df' = Table(rows)
            /\ pc' = "ready"
            /\ err' = ""
            /\ read' = [read EXCEPT !.character = rows]
       ELSE /\ err' = "FileNotFoundError"
            /\ pc' = "failed"
            /\ UNCHANGED <<character_df, read>>
    /\ UNCHANGED <<served, tar_filter, archive_file, disk, wrote, movie_df,
                   cleanings, result>>

\* a variant that logs the missing file and goes on with an empty table
load_character_data_recovering ==
    /\ pc = "load_character"
    /\ IF exists(character_file)
       THEN \E rows \in CharacterFiles :
            /\ character_df' = Table(rows)
            /\ read' = [read EXCEPT !.character = rows]
       ELSE /\ character_df' = Table(<<>>)
            /\ UNCHANGED read
    /\ pc' = "clean"
    /\ err' = ""
    /\ UNCHANGED <<served, tar_filter, archive_file, disk, wrote, movie_df,
                   cleanings, result>>

\* MovieData._load_character_data
load_character_data ==
    /\ pc = "load_character"
    /\ IF exists(character_file)
       THEN \E rows \in CharacterFiles :
            /\ character_df' = Table(rows)
            /\ pc' = "clean"
            /\ err' = ""
            /\ read' = [read EXCEPT !.character = rows]
       ELSE /\ err' = "FileNotFoundError"
            /\ pc' = "failed"
            /\ UNCHANGED <<character_df, read>>
    /\ UNCHANGED <<served, tar_filter, archive_file, disk, wrote, movie_df,
                   cleanings, result>>

\* the assignments of MovieData._clean_data to the two tables
clean_tables ==
    LET m == clean_columns(movie_df.rows, CleanedColumns) IN
    /\ movie_df' = Table(m.rows)
    /\ character_df' = IF m.raised THEN character_df
                       ELSE Table(clean_character_rows(character_df.rows))
    /\ err' = IF m.raised THEN "Exception" ELSE err
    /\ cleanings' = cleanings + 1

\* MovieData._clean_data, the last stage of __init__
clean_data ==
    /\ pc = "clean"
    /\ clean_tables
    /\ pc' = IF err' = "" THEN "ready" ELSE "failed"
    /\ UNCHANGED <<served, read, tar_filter, archive_file, disk, wrote, result>>

(***************************************************************************)
(* Query methods of moviedata_final.py.  A call leaves its outcome in      *)
(* result: the table returned (columns and rows) or the exception raised.  *)
(***************************************************************************)
Returned(call, args, columns, rows) ==
    [call |-> call, args |-> args, kind |-> "table", error |-> "",
     columns |-> columns, rows |-> rows]
Raised(call, args, error) ==
    [call |-> call, args |-> args, kind |-> "error", error |-> error,
     columns |-> <<>>, rows |-> <<>>]
\* pd.DataFrame(): no columns, no rows
EmptyDataFrame(call, args) == Returned(call, args, <<>>, <<>>)

RECURSIVE split(_, _)
\* str.split(sep) for a non-empty separator
split(s, sep) ==
    IF \E i \in 1..(Len(s) - Len(sep) + 1) : SubSeq(s, i, i + Len(sep) - 1) = sep
    THEN LET i == CHOOSE k \in 1..(Len(s) - Len(sep) + 1) :
                    /\ SubSeq(s, k, k + Len(sep) - 1) = sep
                    /\ \A j \in 1..(k - 1) : SubSeq(s, j, j + Len(sep) - 1) # sep
         IN <<SubSeq(s, 1, i - 1)>> \o split(SubSeq(s, i + Len(sep), Len(s)), sep)
    ELSE <<s>>

\* a match that every text passes
contains_anything(s, sub) == TRUE

\* re.search(sub, s, re.IGNORECASE) for a pattern of plain characters
contains_nocase(s, sub) ==
    \E i \in 1..(Len(s) - Len(sub) + 1) :
        lower(SubSeq(s, i, i + Len(sub) - 1)) = lower(sub)

RECURSIVE concat(_)
\* Series.explode: the lists of a column, one after the other
concat(lists) == IF lists = <<>> THEN <<>> ELSE Head(lists) \o concat(Tail(lists))

RECURSIVE distinct(_, _)
\* the distinct items of a sequence in order of first appearance
distinct(items, seen) ==
    IF items = <<>> THEN <<>>
    ELSE IF Head(items) \in seen THEN distinct(Tail(items), seen)
    ELSE <<Head(items)>> \o distinct(Tail(items), seen \cup {Head(items)})

occurrences(items, x) == Cardinality({ i \in 1..Len(items) : items[i] = x })

\* a variant that leaves the pairs in the order given
unsorted(ps) == ps

RECURSIVE sort_by_count(_)
\* sort_values(ascending=False) on <<item, count>> pairs, ties in the order
\* given
sort_by_count(ps) ==
    IF ps = <<>> THEN <<>>
    ELSE LET i == CHOOSE k \in 1..Len(ps) :
                    /\ \A j \in 1..Len(ps) : ps[j][2] <= ps[k][2]
                    /\ \A j \in 1..(k - 1) : ps[j][2] < ps[k][2]
         IN <<ps[i]>> \o sort_by_count(SubSeq(ps, 1, i - 1) \o SubSeq(ps, i + 1, Len(ps)))

\* Series.value_counts(): <<item, count>> by decreasing count
value_counts(items) ==
    LET d == distinct(items, {})
    IN sort_by_count([i \in 1..Len(d) |-> <<d[i], occurrences(items, d[i])>>])

\* DataFrame.head(n): the first n rows, all but the last -n for n < 0
head(rows, n) ==
    IF n >= 0 THEN SubSeq(rows, 1, Min(n, Len(rows)))
    ELSE SubSeq(rows, 1, IF Len(rows) + n > 0 THEN Len(rows) + n ELSE 0)

RECURSIVE sorted(_)
\* the integers of a set in increasing order
sorted(S) ==
    IF S = {} THEN <<>>
    ELSE LET m == CHOOSE x \in S : \A y \in S : x <= y
         IN <<m>> \o sorted(S \ {m})

\* groupby(key).size(): <<key, number of rows>> by increasing key
group_size(keys) ==
    LET ks == sorted({ keys[i] : i \in 1..Len(keys) })
    IN [i \in 1..Len(ks) |-> <<ks[i], occurrences(keys, ks[i])>>]

\* the arguments the model passes
IntArg(n) == [kind |-> "int", v |-> n]
NArgs ==
    { IntArg(n) : n \in (0 - MaxN)..MaxN } \cup
    { [kind |-> "float", v |-> 2],     \* 2.5
      [kind |-> "str", v |-> 3] }      \* "3"
GenreArgs == { None, Str(Drama), Str(lower(Drama)), Str(Comedy) }
UnitArgs == { "Y", "M", "D" }
all == <<"a","l","l">>
GenderArgs == { all, <<"A","l","l">>, male, <<"F","e","m","a","l","e">>, <<"x">> }
\* 100 and 300 cm, in hundredths
HeightArgs == { 10000, 30000 }

\* MovieData.movie_type
movie_type ==
    /\ pc = "ready"
    /\ \E N \in NArgs :
        result' =
            IF N.kind # "int" THEN Raised("movie_type", <<N>>, "ValueError")
            ELSE IF ~movie_df.loaded THEN EmptyDataFrame("movie_type", <<N>>)
            ELSE LET cells == SelectSeq([i \in 1..Len(movie_df.rows) |->
                                            movie_df.rows[i].Movie_genres],
                                        LAMBDA c : ~isna(c))
                     lists == [i \in 1..Len(cells) |-> split(cells[i].s, Sep)]
                     exploded == concat(lists)
                     names == [i \in 1..Len(exploded) |-> strip(exploded[i])]
                     counts == head(value_counts(names), N.v)
                 IN Returned("movie_type", <<N>>, <<"Movie_Type", "Count">>,
                        [i \in 1..Len(counts) |->
                            [Movie_Type |-> counts[i][1], Count |-> counts[i][2]]])
    /\ UNCHANGED <<served, read, tar_filter, archive_file, disk, pc, err, wrote,
                   movie_df, character_df, cleanings>>

\* lines 174-181 of releases: the rows of the table it returns
releases_rows(rows, genre) ==
    LET dated == SelectSeq(rows,
                    LAMBDA r : to_datetime(r.Movie_release_Date).kind = "date")
        df == IF genre.kind = "str" /\ genre.s # <<>>
              THEN SelectSeq(dated, LAMBDA r :
                       /\ r.Movie_genres.kind = "str"
                       /\ contains_nocase(r.Movie_genres.s, genre.s))
              ELSE dated
        groups == group_size([i \in 1..Len(df) |->
                       to_datetime(df[i].Movie_release_Date).year])
    IN [i \in 1..Len(groups) |->
           [Year |-> groups[i][1], Movie_Count |-> groups[i][2]]]

\* MovieData.releases
releases ==
    /\ pc = "ready"
    /\ \E genre \in GenreArgs :
        result' =
            IF ~movie_df.loaded THEN Raised("releases", <<genre>>, "ValueError")
            ELSE Returned("releases", <<genre>>, <<"Year", "Movie_Count">>,
                          releases_rows(movie_df.rows, genre))
    /\ UNCHANGED <<served, read, tar_filter, archive_file, disk, pc, err, wrote,
                   movie_df, character_df, cleanings>>

\* MovieData.actor_count
actor_count ==
    /\ pc = "ready"
    /\ result' =
        IF ~character_df.loaded \/ character_df.rows = <<>>
        THEN EmptyDataFrame("actor_count", <<>>)
        ELSE LET per_movie == group_size([i \in 1..Len(character_df.rows) |->
                                character_df.rows[i].Wikipedia_movie_ID])
                 groups == group_size([i \in 1..Len(per_movie) |-> per_movie[i][2]])
             IN Returned("actor_count", <<>>, <<"Number of Actors", "Movie Count">>,
                    [i \in 1..Len(groups) |->
                        [Number_of_Actors |-> groups[i][1], Movie_Count |-> groups[i][2]]])
    /\ UNCHANGED <<served, read, tar_filter, archive_file, disk, pc, err, wrote,
                   movie_df, character_df, cleanings>>

\* MovieData.ages
ages ==
    /\ pc = "ready"
    /\ \E unit \in UnitArgs :
        result' =
            IF ~character_df.loaded THEN Raised("ages", <<unit>>, "ValueError")
            ELSE LET born == SelectSeq(character_df.rows,
                        LAMBDA r : to_datetime(r.Actor_date_of_birth).kind = "date")
                     dates == [i \in 1..Len(born) |-> to_datetime(born[i].Actor_date_of_birth)]
                 IN IF unit = "M"
                    THEN LET groups == group_size([i \in 1..Len(dates) |-> dates[i].month])
                         IN Returned("ages", <<unit>>, <<"Month", "Birth_Count">>,
                                [i \in 1..Len(groups) |->
                                    [Month |-> groups[i][1], Birth_Count |-> groups[i][2]]])
                    ELSE LET groups == group_size([i \in 1..Len(dates) |-> dates[i].year])
                         IN Returned("ages", <<unit>>, <<"Year", "Birth_Count">>,
                                [i \in 1..Len(groups) |->
                                    [Year |-> groups[i][1], Birth_Count |-> groups[i][2]]])
    /\ UNCHANGED <<served, read, tar_filter, archive_file, disk, pc, err, wrote,
                   movie_df, character_df, cleanings>>

\* a variant that turns every value outside the mapping into "unknown"
renormalize_gender_unknown(rows) ==
    [i \in 1..Len(rows) |->
        [rows[i] EXCEPT !.Actor_Gender =
            fillna(gender_map(lower_strip(fillna(@, Str(unknown)))), Str(unknown))]]

\* lines 226-232 of actor_distributions: the Actor_Gender column is
\* normalised again and assigned back to character_df
renormalize_gender(rows) ==
    [i \in 1..Len(rows) |-> [rows[i] EXCEPT !.Actor_Gender = normalize_gender(@)]]

\* a variant that filters on the height range alone
height_filter_any_gender(rows, gender, min_height, max_height) ==
    SelectSeq(rows, LAMBDA r :
        /\ r.Actor_height.kind = "num"
        /\ r.Actor_height.v >= min_height
        /\ r.Actor_height.v <= max_height)

\* lines 235-248 of actor_distributions: the table it returns for the rows
\* of character_df
height_filter(rows, gender, min_height, max_height) ==
    LET in_range == SelectSeq(rows, LAMBDA r :
                        /\ r.Actor_height.kind = "num"
                        /\ r.Actor_height.v >= min_height
                        /\ r.Actor_height.v <= max_height)
    IN IF lower(gender) # all
       THEN SelectSeq(in_range, LAMBDA r :
                /\ r.Actor_Gender.kind = "str"
                /\ lower(r.Actor_Gender.s) = lower(gender))
       ELSE in_range

\* MovieData.actor_distributions
actor_distributions ==
    /\ pc = "ready"
    /\ \E gender \in GenderArgs, min_height \in HeightArgs, max_height \in HeightArgs :
        LET args == <<gender, min_height, max_height>> IN
        IF ~character_df.loaded \/ character_df.rows = <<>>
        THEN /\ result' = EmptyDataFrame("actor_distributions", args)
             /\ UNCHANGED character_df
        ELSE LET rows == renormalize_gender(character_df.rows)
                 filtered_df == height_filter(rows, gender, min_height, max_height)
             IN /\ character_df' = Table(rows)
                /\ result' =
                    IF filtered_df = <<>>
                    THEN EmptyDataFrame("actor_distributions", args)
                    ELSE Returned("actor_distributions", args,
                            <<"Actor_Gender", "Actor_height">>,
                            [i \in 1..Len(filtered_df) |->
                                [Actor_Gender |-> filtered_df[i].Actor_Gender,
                                 Actor_height |-> filtered_df[i].Actor_height]])
    /\ UNCHANGED <<served, read, tar_filter, archive_file, disk, pc, err, wrote,
                   movie_df, cleanings>>

(***************************************************************************)
(* Startup of moviedata.py: the same stages, extraction through            *)
(* safe_extract, and no cleaning stage in __init__.                        *)
(***************************************************************************)
\* the test of line 51 on one member name
within_directory(path, name) ==
    commonprefix2(PathText(abspath(path)), PathText(abspath(path \o name)))
        = PathText(abspath(path))

\* a variant that tests each member just before it is written
safe_extract_interleaved(io) ==
    IF archive_file.chunks < Len(served)
    THEN [wrote |-> 0, err |-> "ReadError"]
    ELSE IF \E i \in 1..Len(served) : ~within_directory(download_dir, served[i])
    THEN LET bad == CHOOSE i \in 1..Len(served) :
                        /\ ~within_directory(download_dir, served[i])
                        /\ \A j \in 1..(i - 1) : within_directory(download_dir, served[j])
             r == extractall(Min(io, bad - 1))
         IN IF r.wrote = bad - 1
            THEN [wrote |-> r.wrote, err |-> "Attempted Path Traversal in Tar File"]
            ELSE r
    ELSE extractall(io)

\* safe_extract(tar_ref, download_dir): getmembers() reads every header (and
\* fails on a truncated file), every member is tested, then extractall runs
safe_extract(io) ==
    IF archive_file.chunks < Len(served)
    THEN [wrote |-> 0, err |-> "ReadError"]
    ELSE IF \E i \in 1..Len(served) : ~within_directory(download_dir, served[i])
    THEN [wrote |-> 0, err |-> "Attempted Path Traversal in Tar File"]
    ELSE extractall(io)

\* MovieData._download_data of moviedata.py
download_data_v1 == download_data

\* MovieData._extract_data of moviedata.py
extract_data_v1 ==
    /\ pc = "extract"
    /\ IF exists(extracted_dir)
       THEN /\ pc' = "load_movie"
            /\ UNCHANGED <<disk, err, wrote>>
       ELSE \E io \in 0..Len(served) :
            LET r == safe_extract(io)
            IN /\ disk' = disk \cup Written(served, r.wrote)
               /\ wrote' = r.wrote
               /\ err' = r.err
               /\ pc' = IF r.err = "" THEN "load_movie" ELSE "failed"
    /\ UNCHANGED <<served, read, tar_filter, archive_file, movie_df, character_df,
                   cleanings, result>>

\* MovieData._load_movie_data of moviedata.py
load_movie_data_v1 == load_movie_data

\* MovieData._load_character_data of moviedata.py, the last stage
load_character_data_v1 ==
    /\ pc = "load_character"
    /\ IF exists(character_file)
       THEN \E rows \in CharacterFiles :
            /\ character_df' = Table(rows)
            /\ pc' = "ready"
            /\ err' = ""
            /\ read' = [read EXCEPT !.character = rows]
       ELSE /\ err' = "FileNotFoundError"
            /\ pc' = "failed"
            /\ UNCHANGED <<character_df, read>>
    /\ UNCHANGED <<served, tar_filter, archive_file, disk, wrote, movie_df,
                   cleanings, result>>

(***************************************************************************)
(* Specifications                                                          *)
(***************************************************************************)
\* the program before its first start: nothing downloaded, nothing loaded
Init ==
    /\ served \in Archives
    /\ tar_filter \in {"fully_trusted", "data"}
    /\ archive_file = [exists |-> FALSE, chunks |-> 0]
    /\ disk = BaseDisk
    /\ pc = "start"
    /\ err = ""
    /\ wrote = 0
    /\ movie_df = NotLoaded
    /\ character_df = NotLoaded
    /\ read = NothingRead
    /\ cleanings = 0
    /\ result = NoResult

Next ==
    \/ Startup
    \/ download_data
    \/ extract_data
    \/ load_movie_data
    \/ load_character_data
    \/ clean_data
    \/ movie_type
    \/ releases
    \/ actor_count
    \/ ages
    \/ actor_distributions

\* moviedata_final.py: every sequence of startups
Spec == Init /\ [][Next]_vars

\* _clean_data as a function of the tables: any loaded tables, cleaned
\* repeatedly
DefaultMovieTable == << MovieRow(1, Date(2000, 1), DefaultMap, DefaultMap, DefaultMap) >>
DefaultCharacterTable == << CharacterRow(1, Date(1970, 1), Str(<<"M">>), Num(17800)) >>

TablePairs ==
    { <<m, DefaultCharacterTable>> : m \in RawMovieTables } \cup
    { <<DefaultMovieTable, c>> : c \in RawCharacterTables }

InitClean ==
    /\ served = << <<MovieSummaries, movie_metadata_tsv>>,
                   <<MovieSummaries, character_metadata_tsv>> >>
    /\ tar_filter = "fully_trusted"
    /\ archive_file = [exists |-> TRUE, chunks |-> 2]
    /\ disk = BaseDisk \cup Written(served, 2)
    /\ pc = "clean"
    /\ err = ""
    /\ wrote = 0
    /\ \E t \in TablePairs :
        /\ read = [movie |-> t[1], character |-> t[2]]
        /\ movie_df = Table(t[1])
        /\ character_df = Table(t[2])
    /\ cleanings = 0
    /\ result = NoResult

\* _clean_data applied once more to the tables it produced
clean_again ==
    /\ pc = "clean"
    /\ cleanings < MaxCleanings
    /\ clean_tables
    /\ UNCHANGED <<served, read, tar_filter, archive_file, disk, pc, wrote, result>>

NextClean == clean_again

SpecClean == InitClean /\ [][NextClean]_vars

\* the query methods on an instance whose construction has finished: the
\* tables are the cleaned contents of any pair of files
InitQuery ==
    /\ served = << <<MovieSummaries, movie_metadata_tsv>>,
                   <<MovieSummaries, character_metadata_tsv>> >>
    /\ tar_filter = "fully_trusted"
    /\ archive_file = [exists |-> TRUE, chunks |-> 2]
    /\ disk = BaseDisk \cup Written(served, 2)
    /\ pc = "ready"
    /\ err = ""
    /\ wrote = 2
    /\ \E t \in TablePairs :
        /\ read = [movie |-> t[1], character |-> t[2]]
        /\ movie_df = Table(clean_movie_rows(t[1]))
        /\ character_df = Table(clean_character_rows(t[2]))
    /\ cleanings = 1
    /\ result = NoResult

NextQuery ==
    \/ movie_type
    \/ releases
    \/ actor_count
    \/ ages
    \/ actor_distributions

SpecQuery == InitQuery /\ [][NextQuery]_vars

\* moviedata.py: every sequence of startups
NextV1 ==
    \/ Startup
    \/ download_data_v1
    \/ extract_data_v1
    \/ load_movie_data_v1
    \/ load_character_data_v1

SpecV1 == Init /\ [][NextV1]_vars

(***************************************************************************)
(* Claims                                                                  *)
(***************************************************************************)
\* some member of the served archive resolves outside the download directory
HasOutside == \E i \in 1..Len(served) : ~Inside(served[i])

\* no member of the served archive is on disk
NothingExtracted == \A i \in 1..Len(served) : Target(served[i]) \notin disk

\* every member of the served archive is on disk
AllExtracted == \A i \in 1..Len(served) : Target(served[i]) \in disk

\* the stages of __init__ that follow a return of _extract_data
AfterExtract == {"load_movie", "load_character", "clean", "ready"}

\* C1: in moviedata_final.py, an archive with a member that resolves outside
\* the download directory is never extracted: _extract_data does not return
\* normally and no member of the archive is ever written.
C1_OutsideArchiveRejected ==
    HasOutside => (pc \notin AfterExtract /\ NothingExtracted)

\* the served archive has a member named "../../evil"
HasEvil == \E i \in 1..Len(served) : served[i] = <<DotDot, DotDot, evil>>

\* C2: in moviedata.py, an archive with a member named "../../evil" is
\* rejected before the first write: no member of it is ever on disk, the
\* extraction wrote nothing and __init__ never gets past _extract_data.
C2_EvilRejectedBeforeAnyWrite ==
    HasEvil => (NothingExtracted /\ wrote = 0 /\ pc \notin AfterExtract)

\* C2 witness: a completely downloaded archive whose first member is
\* well-behaved and a later one is "../../evil" was rejected by safe_extract,
\* and the first member was not written.
C2_Witness ==
    /\ HasEvil
    /\ Inside(served[1])
    /\ Complete
    /\ pc = "failed"
    /\ err = "Attempted Path Traversal in Tar File"
    /\ Target(served[1]) \notin disk

\* C3: in moviedata_final.py, the archive path exists only when it holds a
\* complete download.
C3_ArchiveExistsOnlyComplete ==
    archive_file.exists => archive_file.chunks = Len(served)

\* C4: in moviedata_final.py, whenever _extract_data has returned without
\* error, every member of the archive is unpacked on disk.
C4_ReturnImpliesUnpacked ==
    pc = "load_movie" => AllExtracted

\* C5: in moviedata_final.py, _clean_data applied to tables it has already
\* cleaned leaves movie_df and character_df unchanged.
C5_CleanIdempotent ==
    [][cleanings >= 1 => (movie_df' = movie_df /\ character_df' = character_df)]_vars

\* C6: in moviedata_final.py, no query call changes movie_df or character_df.
C6_QueriesLeaveTables ==
    [][pc = "ready" /\ pc' = "ready" =>
        (movie_df' = movie_df /\ character_df' = character_df)]_vars

\* C6 witness: actor_distributions has returned rows from a table that holds
\* a gender outside the mapping, the case in which its assignment to
\* Actor_Gender falls back to the stored value.
C6_Witness ==
    /\ result.call = "actor_distributions"
    /\ result.kind = "table"
    /\ result.rows # <<>>
    /\ \E i \in 1..Len(character_df.rows) :
        character_df.rows[i].Actor_Gender \notin {Str(male), Str(female)}

\* C7: in moviedata_final.py, actor_distributions called with
\* min_height > max_height raises instead of returning a table.
C7_BadRangeRejected ==
    (result.call = "actor_distributions" /\ result.args[2] > result.args[3])
        => result.kind = "error"

\* C8: in moviedata_final.py, movie_type(N) raises whenever N is not a
\* positive integer.
C8_NonPositiveNRejected ==
    (result.call = "movie_type"
        /\ ~(result.args[1].kind = "int" /\ result.args[1].v >= 1))
        => result.kind = "error"

\* C9: in moviedata_final.py, after _clean_data every Actor_Gender value is
\* one of "male", "female", "unknown".
C9_GenderInThreeValues ==
    cleanings >= 1 =>
        \A i \in 1..Len(character_df.rows) :
            character_df.rows[i].Actor_Gender \in {Str(male), Str(female), Str(unknown)}

\* the text s is the letter c in either case with any whitespace around it
IsCode(s, c) ==
    \E a \in 0..Len(s) :
        /\ a < Len(s)
        /\ lower_char(s[a + 1]) = c
        /\ s[a + 1] \in {"m", "M", "f", "F"}
        /\ \A j \in 1..Len(s) : j # a + 1 => s[j] = " "

\* the rows read from the character file that _clean_data keeps
KeptRead == SelectSeq(read.character, LAMBDA r : r.Actor_height.kind = "num")

\* C10: in moviedata_final.py, _clean_data turns a gender code "m" or "M"
\* with any surrounding whitespace into "male", and "f" or "F" likewise into
\* "female".
C10_CodesExpanded ==
    cleanings = 1 =>
        /\ Len(character_df.rows) = Len(KeptRead)
        /\ \A i \in 1..Len(KeptRead) :
            LET g == KeptRead[i].Actor_Gender IN
            /\ (g.kind = "str" /\ IsCode(g.s, "m"))
                => character_df.rows[i].Actor_Gender = Str(male)
            /\ (g.kind = "str" /\ IsCode(g.s, "f"))
                => character_df.rows[i].Actor_Gender = Str(female)

\* C10 witness: the code " M " was read and cleaned to "male"
C10_Witness ==
    /\ cleanings = 1
    /\ \E i \in 1..Len(KeptRead) :
        /\ KeptRead[i].Actor_Gender = Str(<<" ", "M", " ">>)
        /\ character_df.rows[i].Actor_Gender = Str(male)

RECURSIVE SumCounts(_)
\* the sum of the Movie_Count column of a result
SumCounts(rows) ==
    IF rows = <<>> THEN 0 ELSE Head(rows).Movie_Count + SumCounts(Tail(rows))

\* the movies that have at least one row in the character file as loaded
MoviesRead == { read.character[i].Wikipedia_movie_ID : i \in 1..Len(read.character) }

\* C11: in moviedata_final.py, the Movie Count values actor_count() returns
\* sum to the number of distinct movies that have a row in the loaded
\* character file.
C11_CountsSumToMovies ==
    result.call = "actor_count" => SumCounts(result.rows) = Cardinality(MoviesRead)

\* the columns clean_column_values is applied to
MapColumns == {"Movie_genres", "Movie_countries", "Movie_languages"}

\* C12: in moviedata_final.py, after _clean_data every cell of Movie_genres,
\* Movie_countries and Movie_languages is a text value, none is missing.
C12_MapCellsAreText ==
    cleanings >= 1 =>
        \A i \in 1..Len(movie_df.rows) : \A c \in MapColumns :
            movie_df.rows[i][c].kind = "str"

\* C13: in moviedata_final.py, a cell that does not parse never aborts
\* _clean_data: the run raises nothing, the bad cell becomes '', every
\* well-formed cell of the table becomes its joined names, and the height
\* and gender steps run on the character table.
C13_ParseFailureConfined ==
    cleanings = 1 =>
        /\ err = ""
        /\ Len(movie_df.rows) = Len(read.movie)
        /\ \A i \in 1..Len(read.movie) : \A c \in MapColumns :
            LET x == read.movie[i][c] IN
            /\ x \in MalformedCells => movie_df.rows[i][c] = Str(<<>>)
            /\ \A vs \in SeqsUpTo(GenreNames, 2) :
                x = Str(dict_text(vs)) => movie_df.rows[i][c] = Str(JoinWith(Sep, vs))
        /\ character_df.rows = clean_character_rows(read.character)

\* C13 witness: a table with a malformed genre cell in one row and a map of
\* two names in the other was cleaned, and the gender step ran after it
C13_Witness ==
    /\ cleanings = 1
    /\ Len(read.movie) = 2
    /\ read.movie[1].Movie_genres = Str(<<"{">>)
    /\ movie_df.rows[1].Movie_genres = Str(<<>>)
    /\ read.movie[2].Movie_genres = Str(dict_text(<<Comedy, Drama>>))
    /\ movie_df.rows[2].Movie_genres = Str(JoinWith(Sep, <<Comedy, Drama>>))
    /\ movie_df.rows[1].Movie_countries = Str(Drama)
    /\ read.character[1].Actor_Gender = Str(<<"M">>)
    /\ character_df.rows[1].Actor_Gender = Str(male)

\* C14: in moviedata_final.py, _clean_data multiplies every height below
\* the threshold 10 by 100 and leaves every height of 10 or more as it is
\* (heights in hundredths: 1.78 is 178, 178 is 17800).
C14_HeightsRescaled ==
    cleanings = 1 =>
        /\ Len(character_df.rows) = Len(KeptRead)
        /\ \A i \in 1..Len(KeptRead) :
            LET h == KeptRead[i].Actor_height.v IN
            character_df.rows[i].Actor_height =
                Num(IF h < 10 * 100 THEN h * 100 ELSE h)

\* C14 witness: 1.78 was read and became 178, 178 was read and stayed
C14_Witness ==
    /\ cleanings = 1
    /\ Len(read.character) = 2
    /\ read.character[1].Actor_height = Num(178)
    /\ character_df.rows[1].Actor_height = Num(17800)
    /\ read.character[2].Actor_height = Num(17800)
    /\ character_df.rows[2].Actor_height = Num(17800)

\* the text s holds the text g somewhere, letter case ignored
HoldsName(s, g) ==
    \E k \in 0..(Len(s) - Len(g)) :
        \A j \in 1..Len(g) : lower_char(s[k + j]) = lower_char(g[j])

C16_TopNBoundedAndOrdered ==
    (result.call = "movie_type" /\ result.args[1].kind = "int"
        /\ result.args[1].v >= 1) =>
        /\ result.kind = "table"
        /\ Len(result.rows) <= result.args[1].v
        /\ \A i \in 1..Len(result.rows) : \A j \in i..Len(result.rows) :
            result.rows[i].Count >= result.rows[j].Count

\* C16 witness: movie_type(2) on a table whose first genre is the rarer
\* one returned the commoner genre first
C16_Witness ==
    /\ result.call = "movie_type"
    /\ result.args = <<IntArg(2)>>
    /\ movie_df.rows[1].Movie_genres = Str(JoinWith(Sep, <<Comedy, Drama>>))
    /\ result.rows = << [Movie_Type |-> Drama, Count |-> 2],
                        [Movie_Type |-> Comedy, Count |-> 1] >>

\* C17: in moviedata_final.py, every row actor_distributions returns for
\* min_height <= max_height has a height within the range and, unless the
\* gender asked for is "all" in any letter case, the gender asked for,
\* letter case ignored.
C17_RowsMatchFilter ==
    (result.call = "actor_distributions" /\ result.args[2] <= result.args[3]) =>
        \A i \in 1..Len(result.rows) :
            LET r == result.rows[i] IN
            /\ r.Actor_height.kind = "num"
            /\ result.args[2] <= r.Actor_height.v
            /\ r.Actor_height.v <= result.args[3]
            /\ \/ lower(result.args[1]) = all
               \/ /\ r.Actor_Gender.kind = "str"
                  /\ lower(r.Actor_Gender.s) = lower(result.args[1])

\* C17 witness: actor_distributions("Female", 100, 300) on a table with a
\* male and a female actor in the range returned the female one alone
C17_Witness ==
    /\ result.call = "actor_distributions"
    /\ result.args = << <<"F","e","m","a","l","e">>, 10000, 30000 >>
    /\ Len(character_df.rows) = 2
    /\ character_df.rows[1].Actor_Gender = Str(male)
    /\ character_df.rows[1].Actor_height = Num(17800)
    /\ result.rows = << [Actor_Gender |-> Str(female), Actor_height |-> Num(17800)] >>

\* the stages of MovieData.__init__ in the order of its statements, and the
\* state in which it has returned
StageOrder == <<"download", "extract", "load_movie", "load_character", "clean", "ready">>
Follows == { <<StageOrder[i], StageOrder[i + 1]>> : i \in 1..(Len(StageOrder) - 1) }

\* C18: in moviedata_final.py, a construction of MovieData runs download,
\* extract, load movies, load characters and clean in this order, each once
\* and each only after the stage before it returned without an exception,
\* and a query is answered only by an instance whose _clean_data has run.
C18_StagesInOrder ==
    [][ /\ pc' # pc =>
            \/ pc' = "download" /\ pc \in {"start", "failed", "ready"}
            \/ pc' = "failed" /\ err' # "" /\ pc \notin {"start", "failed", "ready"}
            \/ <<pc, pc'>> \in Follows /\ err' = ""
        /\ pc' = pc => pc = "ready"
        /\ cleanings' = IF pc = "clean" THEN cleanings + 1
                        ELSE IF pc' = "download" THEN 0 ELSE cleanings
        /\ pc' = "ready" => cleanings' = 1 /\ movie_df'.loaded /\ character_df'.loaded
        /\ (result' # result /\ result'.call # "") => pc = "ready" /\ cleanings = 1
      ]_vars

\* C18 witness: a construction went through all its stages and a query of
\* the instance was answered
C18_Witness ==
    /\ pc = "ready"
    /\ cleanings = 1
    /\ wrote = Len(served)
    /\ result.call = "releases"
    /\ result.kind = "table"

\* C19: in moviedata_final.py, when movie.metadata.tsv or
\* character.metadata.tsv is absent the load stage raises FileNotFoundError
\* and the construction ends there: _clean_data has not run, there is no
\* instance, and no query has been answered.
C19_MissingFileIsFatal ==
    /\ [](  (~exists(movie_file) \/ ~exists(character_file)) =>
                /\ pc \notin {"clean", "ready"}
                /\ cleanings = 0
                /\ result = NoResult )
    /\ [][ /\ (pc = "load_movie" /\ ~exists(movie_file)) =>
                pc' = "failed" /\ err' = "FileNotFoundError"
           /\ (pc = "load_character" /\ ~exists(character_file)) =>
                pc' = "failed" /\ err' = "FileNotFoundError"
           /\ pc = "failed" => pc' = "download" /\ result' = NoResult
         ]_vars

\* C19 witness: the movie file was loaded, the character file is absent and
\* the construction failed with FileNotFoundError
C19_Witness ==
    /\ pc = "failed"
    /\ err = "FileNotFoundError"
    /\ exists(movie_file)
    /\ ~exists(character_file)
    /\ movie_df.loaded
    /\ ~character_df.loaded
    /\ cleanings = 0
    /\ result = NoResult

\* C20: in moviedata.py, a member that passes the test of safe_extract
\* resolves inside the download directory, so no member of the served
\* archive is ever written outside it.
C20_AcceptedMembersStayInside ==
    \A i \in 1..Len(served) :
        (within_directory(download_dir, served[i]) /\ Target(served[i]) \in disk)
            => Inside(served[i])

\* the display names of the raw genre map of a movie as read, none for a
\* cell that is missing or does not parse
RawGenreNames(r) ==
    LET x == r.Movie_genres IN
    IF x.kind = "str" /\ literal_eval_values(x.s).ok
    THEN literal_eval_values(x.s).values
    ELSE <<>>

\* every (movie, genre-map value) occurrence of the table as read
AllRawGenreNames == concat([i \in 1..Len(read.movie) |-> RawGenreNames(read.movie[i])])

\* C21: in moviedata_final.py, every entry of movie_type(N) is a non-empty
\* display name of some movie's raw genre map, and its Count is the number
\* of occurrences of that name in the raw genre maps.
C21_EntriesAreRawNames ==
    (result.call = "movie_type" /\ result.kind = "table") =>
        \A i \in 1..Len(result.rows) :
            /\ result.rows[i].Movie_Type # <<>>
            /\ result.rows[i].Count = occurrences(AllRawGenreNames, result.rows[i].Movie_Type)
            /\ result.rows[i].Count >= 1

====
